---- MODULE Spec2Model ----
(***************************************************************************)
(* Open-addressing hash map with linear probing (src/src/HashMap.c).       *)
(*                                                                         *)
(* A key object is modelled as <<h, c>>: the hash h the hash callback      *)
(* returns for it and a number c that tells apart the objects with that    *)
(* hash that are alive at the same time.  The value object handed over     *)
(* with a key is the same pair, or NULL.  The table compares cached hashes *)
(* only, so two key objects with the same hash are the same key for the    *)
(* table.  A number c is used again once its object was destroyed or       *)
(* handed back to the caller and no slot refers to it, as malloc uses an   *)
(* address again.                                                          *)
(***************************************************************************)
EXTENDS Integers, Sequences, FiniteSets, TLC

\* ---------------------------------------------------------------- bounds
MaxInitBuckets == 3      \* requested bucket counts 1..MaxInitBuckets
MaxBuckets == 16         \* a resize beyond this many buckets is not explored
MaxTombBuckets == 4      \* entries are removed from tables of at most this
                         \* many buckets (a larger table keeps no Tombstone)
MaxCopies == 2           \* objects of one hash alive at the same time
MaxRequest == 24         \* bucket counts -1..MaxRequest asked of the
                         \* constructor when the constructor call is checked
MaxModulus == 6          \* bucket counts 1..MaxModulus of the probed arrays
MaxProbeSteps == 3       \* steps of the probe loop that are followed

\* ------------------------------------------------------- program constants
NULL == <<>>
ENTRY_NOT_FOUND == -1
HASHMAP_LARGE_SIZE == 65536
DEFAULT_BUCKETS == 16

\* result of a probe loop that never exits
Diverges == ENTRY_NOT_FOUND - 1

\* hash values the hash callback returns for the keys that are used
Hashes == {-3, 0, 3}

\* hashes of the keys that are also inserted with a NULL value
NullValueHashes == {3}

EMPTY_ENTRY == [tag |-> "EMPTY", hash |-> 0, key |-> NULL, value |-> NULL]

\* the static dummy object: hash 0, key NULL, value NULL
DUMMY_ENTRY == [tag |-> "DUMMY", hash |-> 0, key |-> NULL, value |-> NULL]

VARIABLES
    entries,      \* map->entries: the allocated bucket array, 0-based
    numBuckets,   \* map->numBuckets
    length,       \* map->length
    liveKeys,     \* key objects handed to the table and not yet destroyed
    liveVals,     \* value objects handed to the table, not yet destroyed
                  \* and not handed back by hashmapRemove
    amap,         \* what the caller put in: hash -> [present, value]
    last,         \* the last call: operation, arguments, result
    scen          \* position in the scripted call sequence (SpecTombstone)

vars == <<entries, numBuckets, length, liveKeys, liveVals, amap, last, scen>>

\* ---------------------------------------------------------------- helpers
\* toReturn *= 2 on the int toReturn of _closestPow2.  From 2^30 on the
\* product is not representable; the multiplication the builds execute
\* (gcc -O0, -O2, -O3) wraps modulo 2^32: 2^30 gives INT_MIN, INT_MIN
\* gives 0.
intTimes2(n) ==
    IF n >= 2 ^ 30 THEN ((n - 2 ^ 30) - 2 ^ 30) * 2
    ELSE IF n < -(2 ^ 30) THEN ((n + 2 ^ 30) + 2 ^ 30) * 2
    ELSE n * 2

\* The loop of _closestPow2.  With toReturn = 0 < x the loop never ends:
\* 0 * 2 = 0.
RECURSIVE closestPow2Loop(_, _)
closestPow2Loop(toReturn, x) ==
    IF toReturn < x
    THEN IF toReturn = 0 THEN Diverges
         ELSE closestPow2Loop(intTimes2(toReturn), x)
    ELSE toReturn

_closestPow2(x) == closestPow2Loop(1, x)

labs(x) == IF x < 0 THEN -x ELSE x

_entryIsOpen(entry) == entry = EMPTY_ENTRY \/ entry = DUMMY_ENTRY

\* The loop of _findSlotEntries from index i, after `seen` slots were
\* examined without leaving the loop.  The array does not change during
\* the loop, so once every slot was examined the loop runs forever.
RECURSIVE findSlotLoop(_, _, _, _, _)
findSlotLoop(ents, len, hashVal, i, seen) ==
    IF ents[i] # EMPTY_ENTRY /\ ents[i].hash # hashVal
    THEN IF seen + 1 >= len
         THEN Diverges
         ELSE findSlotLoop(ents, len, hashVal, (i + 1) % len, seen + 1)
    ELSE i

_findSlotEntries(ents, len, hashVal) ==
    findSlotLoop(ents, len, hashVal, labs(hashVal) % len, 0)

_hashmapGetIndex(ents, len, hashVal) ==
    LET idx == _findSlotEntries(ents, len, hashVal)
    IN  IF idx = Diverges THEN Diverges
        ELSE IF _entryIsOpen(ents[idx]) THEN ENTRY_NOT_FOUND ELSE idx

_makeBuckets(n) == [i \in 0..(n - 1) |-> EMPTY_ENTRY]

_hashentryNew(hash, key, value) ==
    [tag |-> "ENTRY", hash |-> hash, key |-> key, value |-> value]

\* _hashmapNeedsResize testing the load factor the insertion would lead to
hashmapNeedsResize_AfterInsertion(len, nb) ==
    IF 3 * (len + 1) > 2 * nb THEN TRUE ELSE len = nb - 1

\* _hashmapNeedsResize without the test for the last open bucket
hashmapNeedsResize_LoadFactorOnly(len, nb) ==
    3 * len > 2 * nb

_hashmapNeedsResize(len, nb) ==
    IF 3 * len > 2 * nb THEN TRUE ELSE len = nb - 1

\* _hashmapInsert with the store in the replacing branch left out: the old
\* entry is destroyed and stays in its bucket.
hashmapInsert_NoStoreOnReplace(ents, len, toInsert, fk, fv) ==
    LET i == _findSlotEntries(ents, len, toInsert.hash)
    IN  IF i = Diverges
        THEN [hung |-> TRUE, ents |-> ents, entryWasNew |-> 0, fk |-> fk, fv |-> fv]
        ELSE IF ~_entryIsOpen(ents[i])
        THEN [hung |-> FALSE,
              ents |-> ents,
              entryWasNew |-> 0,
              fk |-> Append(fk, ents[i].key),
              fv |-> Append(fv, ents[i].value)]
        ELSE [hung |-> FALSE,
              ents |-> [ents EXCEPT ![i] = toInsert],
              entryWasNew |-> 1,
              fk |-> fk, fv |-> fv]

\* _hashmapInsert: place toInsert, destroying an entry it replaces.
\* fk / fv: the arguments of the key / value destructor calls so far.
\* Result: the new array, entryWasNew (1/0), the destructor calls.
_hashmapInsert(ents, len, toInsert, fk, fv) ==
    LET i == _findSlotEntries(ents, len, toInsert.hash)
    IN  IF i = Diverges
        THEN [hung |-> TRUE, ents |-> ents, entryWasNew |-> 0, fk |-> fk, fv |-> fv]
        ELSE IF ~_entryIsOpen(ents[i])
        THEN [hung |-> FALSE,
              ents |-> [ents EXCEPT ![i] = toInsert],
              entryWasNew |-> 0,
              fk |-> Append(fk, ents[i].key),
              fv |-> Append(fv, ents[i].value)]
        ELSE [hung |-> FALSE,
              ents |-> [ents EXCEPT ![i] = toInsert],
              entryWasNew |-> 1,
              fk |-> fk, fv |-> fv]

\* The copy loop of _hashmapResize.
RECURSIVE resizeLoop(_, _, _, _, _, _, _, _, _)
resizeLoop(old, nb, len, new, newNum, i, copied, fk, fv) ==
    IF copied < len /\ i < nb
    THEN IF _entryIsOpen(old[i])
         THEN resizeLoop(old, nb, len, new, newNum, i + 1, copied, fk, fv)
         ELSE LET r == _hashmapInsert(new, newNum, old[i], fk, fv)
              IN  resizeLoop(old, nb, len, r.ents, newNum, i + 1, copied + 1,
                             r.fk, r.fv)
    ELSE [ents |-> new, fk |-> fk, fv |-> fv]

\* the new bucket count of _hashmapResize, always doubling
newNumBuckets_Doubling(nb) == nb * 2

\* the new bucket count with a map of exactly HASHMAP_LARGE_SIZE buckets
\* still counted as small
newNumBuckets_LargeAbove(nb) == nb * (IF nb > HASHMAP_LARGE_SIZE THEN 2 ELSE 4)

newNumBuckets(nb) == nb * (IF nb >= HASHMAP_LARGE_SIZE THEN 2 ELSE 4)

\* _hashmapResize with the allocation succeeding
_hashmapResize(ents, nb, len) ==
    LET r == resizeLoop(ents, nb, len, _makeBuckets(newNumBuckets(nb)),
                        newNumBuckets(nb), 0, 0, <<>>, <<>>)
    IN  [ents |-> r.ents, nb |-> newNumBuckets(nb), fk |-> r.fk, fv |-> r.fv]

\* _hashmapResize releasing the old array before the new one is checked:
\* the map is left with an empty array
hashmapResizeFailed_ArrayLost(ents, nb, len) ==
    [ents |-> _makeBuckets(nb), nb |-> nb, fk |-> <<>>, fv |-> <<>>]

\* _hashmapResize with the allocation failing: it returns false before it
\* touches the map
_hashmapResizeFailed(ents, nb, len) ==
    [ents |-> ents, nb |-> nb, fk |-> <<>>, fv |-> <<>>]

\* The loop of hashmapClear.
RECURSIVE clearLoop(_, _, _, _, _, _)
clearLoop(ents, nb, len, i, fk, fv) ==
    IF len > 0 /\ i < nb
    THEN IF ~_entryIsOpen(ents[i])
         THEN clearLoop([ents EXCEPT ![i] = EMPTY_ENTRY], nb, len - 1, i + 1,
                        Append(fk, ents[i].key), Append(fv, ents[i].value))
         ELSE clearLoop([ents EXCEPT ![i] = EMPTY_ENTRY], nb, len, i + 1, fk, fv)
    ELSE [ents |-> ents, len |-> len, fk |-> fk, fv |-> fv]

\* ------------------------------------------------- results of the queries
\* the probe for hashVal never leaves its loop
probeHangs(ents, nb, hashVal) == _findSlotEntries(ents, nb, hashVal) = Diverges

\* hashmapGet on a non-NULL map and key, when the probe ends: the stored
\* value or NULL
getValue(ents, nb, hashVal) ==
    LET idx == _hashmapGetIndex(ents, nb, hashVal)
    IN  IF idx = Diverges \/ idx = ENTRY_NOT_FOUND THEN NULL
        ELSE ents[idx].value

\* hashmapContains on a non-NULL map and key: "true", "false" or "hang"
containsKey(ents, nb, hashVal) ==
    LET idx == _hashmapGetIndex(ents, nb, hashVal)
    IN  IF idx = Diverges THEN "hang"
        ELSE IF idx # ENTRY_NOT_FOUND THEN "true" ELSE "false"

\* ---------------------------------------------------------------- objects
Range(seq) == {seq[j] : j \in 1..Len(seq)}

\* addresses some slot refers to, as key or as value
Referenced(ents) ==
    {ents[i].key : i \in DOMAIN ents} \cup {ents[i].value : i \in DOMAIN ents}

\* addresses malloc cannot hand out: objects alive or still referred to
InUse == liveKeys \cup liveVals \cup (Referenced(entries) \ {NULL})

FreeCopies(h) == {c \in 1..MaxCopies : <<h, c>> \notin InUse}

\* the key/value object of hash h the caller creates next
NewObject(h) ==
    <<h, CHOOSE c \in FreeCopies(h) : \A d \in FreeCopies(h) : c <= d>>

\* ------------------------------------------------------------ call record
\* op: the public function called; mapNull/keyNull: a NULL argument;
\* hash: the key's hash; key, value: the objects handed to insert;
\* retB/retP: the boolean / pointer result; hung: the call never returned;
\* resized: _hashmapResize replaced the array; allocFail: which malloc of
\* the call returned NULL ("none", "resize", "entry"); keysFreed/valsFreed:
\* the arguments of the destructor calls the call made, in order;
\* retN / retS: the integer / string result.
\* A string is [kind, pairs]: kind "empty" is "", kind "printValue" the
\* result of the printValue callback for the value pairs[1], kind "braces"
\* is "{" + "key: value" for the <<key, value>> of pairs joined by ", " +
\* "}", kind "corrupt" the outcome of a write before the start of the
\* buffer.
NoString == [kind |-> "empty", pairs |-> <<>>]

NoCall ==
    [op |-> "new", mapNull |-> FALSE, keyNull |-> FALSE, hash |-> 0,
     key |-> NULL, value |-> NULL, retB |-> TRUE, retP |-> NULL,
     hung |-> FALSE, resized |-> FALSE, allocFail |-> "none",
     keysFreed |-> <<>>, valsFreed |-> <<>>, retN |-> 0, retS |-> NoString]

NoEntry == [present |-> FALSE, value |-> NULL]

\* ------------------------------------------------------------ constructor
\* the constructor returned NULL; blocks: what it allocated and did not free
\* hung: the constructor never returns (blocks: what it holds then)
NoMap == [isNull |-> TRUE, entries |-> <<>>, numBuckets |-> 0, length |-> 0,
          hash |-> "none", blocks |-> {}, hung |-> FALSE]

\* hashmapNewBuckets without the check of printKey
hashmapNewBuckets_NoPrintKeyCheck(B, hash, deleteValue, printValue, deleteKey, printKey, mapOk, entriesOk) ==
    IF ~deleteValue \/ ~printValue \/ ~deleteKey \/ B <= 0
    THEN NoMap
    ELSE IF ~mapOk THEN NoMap
    ELSE IF _closestPow2(B) = Diverges
    THEN [NoMap EXCEPT !.blocks = {"map"}, !.hung = TRUE]
    ELSE IF ~entriesOk
    THEN [NoMap EXCEPT !.blocks = {"map"} \ {"map"}]   \* free(toReturn)
    ELSE [isNull |-> FALSE,
          entries |-> _makeBuckets(_closestPow2(B)),
          numBuckets |-> B,
          length |-> 0,
          hash |-> IF hash THEN "given" ELSE "_djb2x",
          blocks |-> {"map", "entries"},
          hung |-> FALSE]

\* hashmapNewBuckets(B, hash, deleteValue, printValue, deleteKey, printKey):
\* the map it returns.  The callback arguments say whether the pointer is
\* set; mapOk / entriesOk whether the malloc of the HashMap / of the bucket
\* array succeeds.
hashmapNewBucketsResult(B, hash, deleteValue, printValue, deleteKey, printKey, mapOk, entriesOk) ==
    IF ~deleteValue \/ ~printValue \/ ~deleteKey \/ ~printKey \/ B <= 0
    THEN NoMap
    ELSE IF ~mapOk THEN NoMap
    ELSE IF _closestPow2(B) = Diverges
    THEN [NoMap EXCEPT !.blocks = {"map"}, !.hung = TRUE]
    ELSE IF ~entriesOk
    THEN [NoMap EXCEPT !.blocks = {"map"} \ {"map"}]   \* free(toReturn)
    ELSE [isNull |-> FALSE,
          entries |-> _makeBuckets(_closestPow2(B)),
          numBuckets |-> B,
          length |-> 0,
          hash |-> IF hash THEN "given" ELSE "_djb2x",
          blocks |-> {"map", "entries"},
          hung |-> FALSE]

\* hashmapNew(hash, deleteVal, printVal, deleteKey, printKey)
hashmapNewResult(hash, deleteVal, printVal, deleteKey, printKey, mapOk, entriesOk) ==
    hashmapNewBucketsResult(DEFAULT_BUCKETS, hash, deleteVal, printVal,
                            deleteKey, printKey, mapOk, entriesOk)

\* ------------------------------------------------------------------- Init
\* hashmapNewBuckets(B, hash, deleteValue, printValue, deleteKey, printKey)
\* with every callback set and both allocations succeeding.
hashmapNewBuckets(B) ==
    /\ entries = hashmapNewBucketsResult(B, TRUE, TRUE, TRUE, TRUE, TRUE,
                                         TRUE, TRUE).entries
    /\ numBuckets = hashmapNewBucketsResult(B, TRUE, TRUE, TRUE, TRUE, TRUE,
                                            TRUE, TRUE).numBuckets
    /\ length = 0
    /\ liveKeys = {}
    /\ liveVals = {}
    /\ amap = [h \in Hashes |-> NoEntry]
    /\ last = NoCall

NoScen == [pc |-> 0, k1 |-> 0, k2 |-> 0, k3 |-> 0, v2 |-> NULL, v3 |-> NULL,
           resized |-> FALSE]

Init ==
    /\ \E B \in 1..MaxInitBuckets : hashmapNewBuckets(B)
    /\ scen = NoScen

\* a call that never returns leaves the program inside that call, and a
\* map that hashmapFree released takes no further call
Running == ~last.hung /\ ~(last.op = "free" /\ ~last.mapNull)

\* ----------------------------------------------------------------- insert
\* hashmapInsert(map, key, value).  resizeOk / entryOk: whether the malloc
\* of _makeBuckets / of _hashentryNew succeeds, if the call reaches it.
hashmapInsert(mapNull, keyNull, h, valNull, resizeOk, entryOk) ==
    LET key == IF keyNull THEN NULL ELSE NewObject(h)
        value == IF valNull THEN NULL ELSE NewObject(h)
        c == [NoCall EXCEPT !.op = "insert", !.mapNull = mapNull,
                            !.keyNull = keyNull, !.hash = h, !.key = key,
                            !.value = value]
        needs == _hashmapNeedsResize(length, numBuckets)
        rs == IF needs
              THEN _hashmapResize(entries, numBuckets, length)
              ELSE [ents |-> entries, nb |-> numBuckets, fk |-> <<>>,
                    fv |-> <<>>]
        rf == _hashmapResizeFailed(entries, numBuckets, length)
        ins == _hashmapInsert(rs.ents, rs.nb, _hashentryNew(h, key, value),
                              rs.fk, rs.fv)
    IN
    /\ Running
    /\ FreeCopies(h) # {}
    /\ IF mapNull \/ keyNull
       THEN /\ last' = [c EXCEPT !.retB = FALSE]
            /\ UNCHANGED <<entries, numBuckets, length, liveKeys, liveVals,
                           amap>>
       ELSE /\ needs => newNumBuckets(numBuckets) <= MaxBuckets
            /\ IF needs /\ ~resizeOk
               THEN /\ last' = [c EXCEPT !.retB = FALSE, !.allocFail = "resize",
                                         !.keysFreed = rf.fk,
                                         !.valsFreed = rf.fv]
                    /\ entries' = rf.ents
                    /\ numBuckets' = rf.nb
                    /\ UNCHANGED <<length, liveKeys, liveVals, amap>>
               ELSE IF ~entryOk
               THEN /\ last' = [c EXCEPT !.retB = FALSE, !.resized = needs,
                                         !.allocFail = "entry",
                                         !.keysFreed = rs.fk,
                                         !.valsFreed = rs.fv]
                    /\ entries' = rs.ents
                    /\ numBuckets' = rs.nb
                    /\ liveKeys' = liveKeys \ Range(rs.fk)
                    /\ liveVals' = liveVals \ Range(rs.fv)
                    /\ UNCHANGED <<length, amap>>
               ELSE IF ins.hung
               THEN /\ last' = [c EXCEPT !.hung = TRUE, !.resized = needs,
                                         !.keysFreed = rs.fk,
                                         !.valsFreed = rs.fv]
                    /\ entries' = rs.ents
                    /\ numBuckets' = rs.nb
                    /\ liveKeys' = liveKeys \ Range(rs.fk)
                    /\ liveVals' = liveVals \ Range(rs.fv)
                    /\ UNCHANGED <<length, amap>>
               ELSE /\ last' = [c EXCEPT !.retB = TRUE, !.resized = needs,
                                         !.keysFreed = ins.fk,
                                         !.valsFreed = ins.fv]
                    /\ entries' = ins.ents
                    /\ numBuckets' = rs.nb
                    /\ length' = length + ins.entryWasNew
                    /\ liveKeys' = (liveKeys \ Range(ins.fk)) \cup {key}
                    /\ liveVals' = (liveVals \ Range(ins.fv)) \cup ({value} \ {NULL})
                    /\ amap' = [amap EXCEPT ![h] =
                                   [present |-> TRUE, value |-> value]]

\* -------------------------------------------------------------------- get
hashmapGet(mapNull, keyNull, h) ==
    LET c == [NoCall EXCEPT !.op = "get", !.mapNull = mapNull,
                            !.keyNull = keyNull, !.hash = h]
        v == getValue(entries, numBuckets, h)
    IN
    /\ Running
    /\ last' = IF mapNull \/ keyNull THEN [c EXCEPT !.retP = NULL]
               ELSE IF probeHangs(entries, numBuckets, h)
               THEN [c EXCEPT !.hung = TRUE]
               ELSE [c EXCEPT !.retP = v]
    /\ UNCHANGED <<entries, numBuckets, length, liveKeys, liveVals, amap>>

\* --------------------------------------------------------------- contains
hashmapContains(mapNull, keyNull, h) ==
    LET c == [NoCall EXCEPT !.op = "contains", !.mapNull = mapNull,
                            !.keyNull = keyNull, !.hash = h]
        r == containsKey(entries, numBuckets, h)
    IN
    /\ Running
    /\ last' = IF mapNull \/ keyNull THEN [c EXCEPT !.retB = FALSE]
               ELSE IF r = "hang" THEN [c EXCEPT !.hung = TRUE]
               ELSE [c EXCEPT !.retB = (r = "true")]
    /\ UNCHANGED <<entries, numBuckets, length, liveKeys, liveVals, amap>>

\* ----------------------------------------------------------------- remove
\* _hashmapRemoveIndex(map, i): the result, the array and the length after it
\* variant: the length is not decremented
hashmapRemoveIndex_LengthKept(ents, len, i) ==
    [toReturn |-> ents[i].value,
     ents |-> [ents EXCEPT ![i] = DUMMY_ENTRY],
     len |-> len,
     fk |-> <<ents[i].key>>]

\* variant: the key of the removed entry is not destroyed
hashmapRemoveIndex_KeyKept(ents, len, i) ==
    [toReturn |-> ents[i].value,
     ents |-> [ents EXCEPT ![i] = DUMMY_ENTRY],
     len |-> len - 1,
     fk |-> <<>>]

_hashmapRemoveIndex(ents, len, i) ==
    [toReturn |-> ents[i].value,
     ents |-> [ents EXCEPT ![i] = DUMMY_ENTRY],
     len |-> len - 1,
     fk |-> <<ents[i].key>>]

\* hashmapRemove(map, key) called with the call record c; deleteIt is set
\* when hashmapDeleteKey calls it and passes a non-NULL result on to the
\* value destructor.
removeBody(c, mapNull, keyNull, h, deleteIt) ==
    LET idx == _hashmapGetIndex(entries, numBuckets, h)
        r == _hashmapRemoveIndex(entries, length, idx)
    IN
    IF mapNull \/ keyNull
    THEN /\ last' = [c EXCEPT !.retP = NULL]
         /\ UNCHANGED <<entries, numBuckets, length, liveKeys, liveVals, amap>>
    ELSE IF idx = Diverges
    THEN /\ last' = [c EXCEPT !.hung = TRUE]
         /\ UNCHANGED <<entries, numBuckets, length, liveKeys, liveVals, amap>>
    ELSE IF idx = ENTRY_NOT_FOUND
    THEN /\ last' = [c EXCEPT !.retP = NULL]
         /\ amap' = [amap EXCEPT ![h] = NoEntry]
         /\ UNCHANGED <<entries, numBuckets, length, liveKeys, liveVals>>
    ELSE /\ last' = [c EXCEPT !.retP = r.toReturn, !.keysFreed = r.fk,
                              !.valsFreed = IF deleteIt /\ r.toReturn # NULL
                                            THEN <<r.toReturn>> ELSE <<>>]
         /\ entries' = r.ents
         /\ length' = r.len
         /\ liveKeys' = liveKeys \ Range(r.fk)
         /\ liveVals' = liveVals \ {r.toReturn}
         /\ amap' = [amap EXCEPT ![h] = NoEntry]
         /\ UNCHANGED numBuckets

hashmapRemove(mapNull, keyNull, h) ==
    /\ Running
    /\ removeBody([NoCall EXCEPT !.op = "remove", !.mapNull = mapNull,
                                 !.keyNull = keyNull, !.hash = h],
                  mapNull, keyNull, h, FALSE)

\* -------------------------------------------------------------- deleteKey
hashmapDeleteKey(mapNull, keyNull, h) ==
    LET c == [NoCall EXCEPT !.op = "deleteKey", !.mapNull = mapNull,
                            !.keyNull = keyNull, !.hash = h]
    IN
    /\ Running
    /\ IF mapNull
       THEN /\ last' = [c EXCEPT !.retB = FALSE]
            /\ UNCHANGED <<entries, numBuckets, length, liveKeys, liveVals,
                           amap>>
       ELSE removeBody([c EXCEPT !.retB = TRUE], FALSE, keyNull, h, TRUE)

\* ------------------------------------------------------------------ clear
hashmapClear(mapNull) ==
    LET r == clearLoop(entries, numBuckets, length, 0, <<>>, <<>>)
    IN
    /\ Running
    /\ IF mapNull
       THEN /\ last' = [NoCall EXCEPT !.op = "clear", !.mapNull = TRUE]
            /\ UNCHANGED <<entries, numBuckets, length, liveKeys, liveVals,
                           amap>>
       ELSE /\ last' = [NoCall EXCEPT !.op = "clear", !.keysFreed = r.fk,
                                      !.valsFreed = r.fv]
            /\ entries' = r.ents
            /\ length' = r.len
            /\ liveKeys' = liveKeys \ Range(r.fk)
            /\ liveVals' = liveVals \ Range(r.fv)
            /\ amap' = [h \in Hashes |-> NoEntry]
            /\ UNCHANGED numBuckets

\* ------------------------------------------------------------------- free
\* hashmapFree(map): hashmapClear, then the bucket array and the map are
\* released.  entries, numBuckets and length keep what the released
\* memory held last.
hashmapFree(mapNull) ==
    LET r == clearLoop(entries, numBuckets, length, 0, <<>>, <<>>)
    IN
    /\ Running
    /\ IF mapNull
       THEN /\ last' = [NoCall EXCEPT !.op = "free", !.mapNull = TRUE]
            /\ UNCHANGED <<entries, numBuckets, length, liveKeys, liveVals,
                           amap>>
       ELSE /\ last' = [NoCall EXCEPT !.op = "free", !.keysFreed = r.fk,
                                      !.valsFreed = r.fv]
            /\ entries' = r.ents
            /\ length' = r.len
            /\ liveKeys' = liveKeys \ Range(r.fk)
            /\ liveVals' = liveVals \ Range(r.fv)
            /\ amap' = [h \in Hashes |-> NoEntry]
            /\ UNCHANGED numBuckets

\* ------------------------------------------------------- length, isEmpty
hashmapLengthResult(mapNull, len) == IF mapNull THEN -1 ELSE len

hashmapIsEmptyResult(mapNull, len) == IF mapNull THEN FALSE ELSE len = 0

\* variant: reading the length of a map uses one entry up
hashmapLength_Decrements(mapNull) ==
    /\ Running
    /\ last' = [NoCall EXCEPT !.op = "length", !.mapNull = mapNull,
                              !.retN = hashmapLengthResult(mapNull, length)]
    /\ length' = IF mapNull \/ length = 0 THEN length ELSE length - 1
    /\ UNCHANGED <<entries, numBuckets, liveKeys, liveVals, amap>>

hashmapLength(mapNull) ==
    /\ Running
    /\ last' = [NoCall EXCEPT !.op = "length", !.mapNull = mapNull,
                              !.retN = hashmapLengthResult(mapNull, length)]
    /\ UNCHANGED <<entries, numBuckets, length, liveKeys, liveVals, amap>>

hashmapIsEmpty(mapNull) ==
    /\ Running
    /\ last' = [NoCall EXCEPT !.op = "isEmpty", !.mapNull = mapNull,
                              !.retB = hashmapIsEmptyResult(mapNull, length)]
    /\ UNCHANGED <<entries, numBuckets, length, liveKeys, liveVals, amap>>

\* ---------------------------------------------------------- valueToString
\* hashmapValueToString(map, key) when hashmapGet returns: "" or the
\* result of printValue for the value found
hashmapValueToStringResult(mapNull, keyNull, ents, nb, len, h) ==
    LET value == IF mapNull \/ keyNull THEN NULL ELSE getValue(ents, nb, h)
    IN  IF mapNull \/ hashmapIsEmptyResult(mapNull, len) \/ value = NULL
        THEN NoString
        ELSE [kind |-> "printValue", pairs |-> <<value>>]

hashmapValueToString(mapNull, keyNull, h) ==
    LET c == [NoCall EXCEPT !.op = "valueToString", !.mapNull = mapNull,
                            !.keyNull = keyNull, !.hash = h]
    IN
    /\ Running
    /\ last' = IF ~mapNull /\ ~keyNull /\ probeHangs(entries, numBuckets, h)
               THEN [c EXCEPT !.hung = TRUE]
               ELSE [c EXCEPT !.retS = hashmapValueToStringResult(
                                          mapNull, keyNull, entries,
                                          numBuckets, length, h)]
    /\ UNCHANGED <<entries, numBuckets, length, liveKeys, liveVals, amap>>

\* --------------------------------------------------------------- toString
\* the loop of hashmapToString from bucket i: the <<key, value>> whose
\* renderings were appended
RECURSIVE toStringLoop(_, _, _, _)
toStringLoop(ents, nb, i, pairs) ==
    IF i < nb
    THEN IF _entryIsOpen(ents[i])
         THEN toStringLoop(ents, nb, i + 1, pairs)
         ELSE toStringLoop(ents, nb, i + 1,
                           Append(pairs, <<ents[i].key, ents[i].value>>))
    ELSE pairs

\* the outcomes of toReturn[length-1] = 0; toReturn[length-2] = '}' when
\* nothing was appended to "{" (length is 1): the second store is outside
\* the buffer.  The caller gets "" or the allocator's data is damaged.
ToStringUnderflow == {NoString, [kind |-> "corrupt", pairs |-> <<>>]}

\* the strings hashmapToString(map) may return
hashmapToStringResults(mapNull, ents, nb, len) ==
    IF mapNull \/ hashmapIsEmptyResult(mapNull, len)
    THEN {[kind |-> "braces", pairs |-> <<>>]}
    ELSE IF toStringLoop(ents, nb, 0, <<>>) = <<>>
    THEN ToStringUnderflow
    ELSE {[kind |-> "braces", pairs |-> toStringLoop(ents, nb, 0, <<>>)]}

hashmapToString(mapNull) ==
    /\ Running
    /\ \E str \in hashmapToStringResults(mapNull, entries, numBuckets, length) :
          last' = [NoCall EXCEPT !.op = "toString", !.mapNull = mapNull,
                                 !.retS = str]
    /\ UNCHANGED <<entries, numBuckets, length, liveKeys, liveVals, amap>>

\* ------------------------------------------------------------------- Next
\* The arguments a call does not look at are fixed: with a NULL map or key
\* no hash is computed and no allocation is attempted, and an allocation
\* can fail only in a call that reaches it.
Insert ==
    \E mapNull, keyNull, valNull, resizeOk, entryOk \in BOOLEAN, h \in Hashes :
        /\ ~(mapNull /\ keyNull)
        /\ (mapNull \/ keyNull \/ ~resizeOk \/ ~entryOk) => (h = 0 /\ ~valNull)
        /\ valNull => h \in NullValueHashes
        /\ (mapNull \/ keyNull) => (resizeOk /\ entryOk)
        /\ ~resizeOk => (entryOk /\ _hashmapNeedsResize(length, numBuckets))
        /\ hashmapInsert(mapNull, keyNull, h, valNull, resizeOk, entryOk)
        /\ UNCHANGED scen

Get ==
    \E mapNull, keyNull \in BOOLEAN, h \in Hashes :
        /\ ~(mapNull /\ keyNull)
        /\ (mapNull \/ keyNull) => h = 0
        /\ hashmapGet(mapNull, keyNull, h)
        /\ UNCHANGED scen

Contains ==
    \E mapNull, keyNull \in BOOLEAN, h \in Hashes :
        /\ ~(mapNull /\ keyNull)
        /\ (mapNull \/ keyNull) => h = 0
        /\ hashmapContains(mapNull, keyNull, h)
        /\ UNCHANGED scen

Remove ==
    \E mapNull, keyNull \in BOOLEAN, h \in Hashes :
        /\ ~(mapNull /\ keyNull)
        /\ (mapNull \/ keyNull) => h = 0
        /\ (mapNull \/ keyNull) \/ numBuckets <= MaxTombBuckets
        /\ hashmapRemove(mapNull, keyNull, h)
        /\ UNCHANGED scen

DeleteKey ==
    \E mapNull, keyNull \in BOOLEAN, h \in Hashes :
        /\ ~(mapNull /\ keyNull)
        /\ (mapNull \/ keyNull) => h = 0
        /\ (mapNull \/ keyNull) \/ numBuckets <= MaxTombBuckets
        /\ hashmapDeleteKey(mapNull, keyNull, h)
        /\ UNCHANGED scen

Clear ==
    \E mapNull \in BOOLEAN :
        /\ hashmapClear(mapNull)
        /\ UNCHANGED scen

Free ==
    \E mapNull \in BOOLEAN :
        /\ hashmapFree(mapNull)
        /\ UNCHANGED scen

Length ==
    \E mapNull \in BOOLEAN :
        /\ hashmapLength(mapNull)
        /\ UNCHANGED scen

IsEmpty ==
    \E mapNull \in BOOLEAN :
        /\ hashmapIsEmpty(mapNull)
        /\ UNCHANGED scen

ValueToString ==
    \E mapNull, keyNull \in BOOLEAN, h \in Hashes :
        /\ ~(mapNull /\ keyNull)
        /\ (mapNull \/ keyNull) => h = 0
        /\ hashmapValueToString(mapNull, keyNull, h)
        /\ UNCHANGED scen

MapToString ==
    \E mapNull \in BOOLEAN :
        /\ hashmapToString(mapNull)
        /\ UNCHANGED scen

Next ==
    \/ Insert \/ Get \/ Contains \/ Remove \/ DeleteKey \/ Clear
    \/ Free \/ Length \/ IsEmpty \/ ValueToString \/ MapToString

Spec == Init /\ [][Next]_vars

\* ------------------------------------------------- the Tombstone scenario
\* On a new table: insert(K1), insert(K2), remove(K1), insert(K3), for
\* every choice of the three keys; every allocation succeeds.
TombInit ==
    /\ \E B \in 1..MaxInitBuckets : hashmapNewBuckets(B)
    /\ \E k1, k2, k3 \in Hashes :
          scen = [NoScen EXCEPT !.k1 = k1, !.k2 = k2, !.k3 = k3]

TombInsertK1 ==
    /\ scen.pc = 0
    /\ hashmapInsert(FALSE, FALSE, scen.k1, FALSE, TRUE, TRUE)
    /\ scen' = [scen EXCEPT !.pc = 1, !.resized = last'.resized]

TombInsertK2 ==
    /\ scen.pc = 1
    /\ hashmapInsert(FALSE, FALSE, scen.k2, FALSE, TRUE, TRUE)
    /\ scen' = [scen EXCEPT !.pc = 2, !.v2 = last'.value,
                            !.resized = @ \/ last'.resized]

TombRemoveK1 ==
    /\ scen.pc = 2
    /\ hashmapRemove(FALSE, FALSE, scen.k1)
    /\ scen' = [scen EXCEPT !.pc = 3]

TombInsertK3 ==
    /\ scen.pc = 3
    /\ hashmapInsert(FALSE, FALSE, scen.k3, FALSE, TRUE, TRUE)
    /\ scen' = [scen EXCEPT !.pc = 4, !.v3 = last'.value,
                            !.resized = @ \/ last'.resized]

TombNext == TombInsertK1 \/ TombInsertK2 \/ TombRemoveK1 \/ TombInsertK3

SpecTombstone == TombInit /\ [][TombNext]_vars

\* ------------------------------------------------- the constructor call
\* One call of hashmapNew or hashmapNewBuckets, for every choice of the
\* arguments and of the allocation that fails.  With an invalid argument
\* no allocation is attempted, and the bucket array is allocated only
\* after the HashMap was.
\* requested bucket counts above 2^30, the last power of two an int holds
HugeRequests == {2 ^ 30 + 1, 2147483647}

NoCreate ==
    [pc |-> 0, ctor |-> "hashmapNewBuckets", B |-> 0, hash |-> TRUE,
     deleteValue |-> TRUE, printValue |-> TRUE, deleteKey |-> TRUE,
     printKey |-> TRUE, allocFail |-> "none", map |-> NoMap]

CreateInit ==
    /\ entries = NoMap.entries
    /\ numBuckets = NoMap.numBuckets
    /\ length = NoMap.length
    /\ liveKeys = {}
    /\ liveVals = {}
    /\ amap = [h \in Hashes |-> NoEntry]
    /\ last = NoCall
    /\ \E ctor \in {"hashmapNew", "hashmapNewBuckets"},
          B \in ((-1)..MaxRequest) \cup HugeRequests,
          hash, deleteValue, printValue, deleteKey, printKey \in BOOLEAN,
          allocFail \in {"none", "map", "entries"} :
          /\ ctor = "hashmapNew" => B = DEFAULT_BUCKETS
          /\ (~deleteValue \/ ~printValue \/ ~deleteKey \/ ~printKey \/ B <= 0)
                 => allocFail = "none"
          /\ scen = [NoCreate EXCEPT !.ctor = ctor, !.B = B, !.hash = hash,
                                     !.deleteValue = deleteValue,
                                     !.printValue = printValue,
                                     !.deleteKey = deleteKey,
                                     !.printKey = printKey,
                                     !.allocFail = allocFail]

\* the state the caller holds after the constructor returned r (pc 1); a
\* constructor that never returns leaves the caller inside the call (pc 2)
Created(r) ==
    /\ entries' = r.entries
    /\ numBuckets' = r.numBuckets
    /\ length' = r.length
    /\ scen' = [scen EXCEPT !.pc = IF r.hung THEN 2 ELSE 1, !.map = r]
    /\ UNCHANGED <<liveKeys, liveVals, amap, last>>

CreateNew ==
    /\ scen.pc = 0 /\ scen.ctor = "hashmapNew"
    /\ Created(hashmapNewResult(scen.hash, scen.deleteValue, scen.printValue,
                                scen.deleteKey, scen.printKey,
                                scen.allocFail # "map",
                                scen.allocFail # "entries"))

CreateNewBuckets ==
    /\ scen.pc = 0 /\ scen.ctor = "hashmapNewBuckets"
    /\ Created(hashmapNewBucketsResult(scen.B, scen.hash, scen.deleteValue,
                                       scen.printValue, scen.deleteKey,
                                       scen.printKey, scen.allocFail # "map",
                                       scen.allocFail # "entries"))

CreateNext == CreateNew \/ CreateNewBuckets

SpecCreate == CreateInit /\ [][CreateNext]_vars

\* ------------------------------------------------------- the probe index
\* A 64-bit signed integer k * 2^63 + e with e small: k = 0 for the small
\* values, k = -1 for INT64_MIN + e (e >= 0), k = 1 for INT64_MAX + 1 + e
\* (e < 0).
INT64_MIN == [k |-> -1, e |-> 0]
INT64_MAX == [k |-> 1, e |-> -1]

Int64(x) == [k |-> 0, e |-> x]

\* 2^k mod n
RECURSIVE Pow2Mod(_, _)
Pow2Mod(k, n) == IF k = 0 THEN 1 % n ELSE (2 * Pow2Mod(k - 1, n)) % n

\* labs on a 64-bit long: -x for x < 0.  -INT64_MIN is not representable;
\* the negation the builds execute (gcc -O0 to -O3: neg, cmovs) wraps to
\* INT64_MIN.
labs64(v) ==
    IF v = INT64_MIN THEN INT64_MIN
    ELSE IF v.k = -1 \/ (v.k = 0 /\ v.e < 0) THEN [k |-> -v.k, e |-> -v.e]
    ELSE v

\* a % n of C for a small int a: the remainder has the sign of a
Crem(a, n) == IF a >= 0 THEN a % n ELSE -((-a) % n)

\* v % n of C for a 64-bit v and a small n > 0
Int64Rem(v, n) ==
    IF v.k = 0 THEN Crem(v.e, n)
    ELSE IF v.k = 1 THEN (Pow2Mod(63, n) + v.e) % n
    ELSE -((Pow2Mod(63, n) - v.e) % n)

\* the index at which _findSlotEntries starts
probeStart(hashVal, len) == Int64Rem(labs64(hashVal), len)

\* the index after i in the loop of _findSlotEntries
probeNext(i, len) == Crem(i + 1, len)

\* hash values of this scenario
ProbeHashes ==
    {Int64(x) : x \in (-4)..4}
        \cup {INT64_MIN, [k |-> -1, e |-> 1], [k |-> -1, e |-> 2], INT64_MAX}

\* _findSlotEntries(entries, len, hashVal) for every hashVal of ProbeHashes,
\* every len of 1..MaxModulus and every content of the array: the loop
\* may go on to the next index or stop at each index.  i: the index the
\* loop is at, steps: how many times it went on.
ProbeInit ==
    /\ entries = NoMap.entries
    /\ numBuckets = NoMap.numBuckets
    /\ length = NoMap.length
    /\ liveKeys = {}
    /\ liveVals = {}
    /\ amap = [h \in Hashes |-> NoEntry]
    /\ last = NoCall
    /\ \E hashVal \in ProbeHashes, len \in 1..MaxModulus :
          scen = [pc |-> 0, hashVal |-> hashVal, len |-> len, i |-> 0,
                  steps |-> 0]

ProbeStart ==
    /\ scen.pc = 0
    /\ scen' = [scen EXCEPT !.pc = 1,
                            !.i = probeStart(scen.hashVal, scen.len)]
    /\ UNCHANGED <<entries, numBuckets, length, liveKeys, liveVals, amap, last>>

ProbeStep ==
    /\ scen.pc = 1
    /\ scen.steps < MaxProbeSteps
    /\ scen' = [scen EXCEPT !.i = probeNext(scen.i, scen.len),
                            !.steps = @ + 1]
    /\ UNCHANGED <<entries, numBuckets, length, liveKeys, liveVals, amap, last>>

ProbeNext == ProbeStart \/ ProbeStep

SpecProbe == ProbeInit /\ [][ProbeNext]_vars

\* ------------------------------------------------ four inserts, 4 buckets
\* hash values of the keys of this scenario: several start at the same
\* bucket of a table of 4 and of 16 buckets
FourHashes == {-20, -4, 0, 3, 4, 16}

\* On a map created with hashmapNewBuckets(4, ...): four inserts of keys
\* with pairwise distinct hashes, for every choice of the four keys; every
\* allocation succeeds.  nbs: the bucket count after each insert.
FourInit ==
    /\ entries = hashmapNewBucketsResult(4, TRUE, TRUE, TRUE, TRUE, TRUE,
                                         TRUE, TRUE).entries
    /\ numBuckets = hashmapNewBucketsResult(4, TRUE, TRUE, TRUE, TRUE, TRUE,
                                            TRUE, TRUE).numBuckets
    /\ length = 0
    /\ liveKeys = {}
    /\ liveVals = {}
    /\ amap = [h \in FourHashes |-> NoEntry]
    /\ last = NoCall
    /\ \E k1, k2, k3, k4 \in FourHashes :
          /\ Cardinality({k1, k2, k3, k4}) = 4
          /\ scen = [pc |-> 0, keys |-> <<k1, k2, k3, k4>>, vals |-> <<>>,
                     nbs |-> <<>>]

FourInsert ==
    /\ scen.pc < 4
    /\ hashmapInsert(FALSE, FALSE, scen.keys[scen.pc + 1], FALSE, TRUE, TRUE)
    /\ scen' = [scen EXCEPT !.pc = @ + 1,
                            !.vals = Append(@, last'.value),
                            !.nbs = Append(@, numBuckets')]

FourNext == FourInsert

SpecFour == FourInit /\ [][FourNext]_vars

\* ----------------------------------------------------- notions of the claims
\* the buckets that hold an entry whose cached hash is h
SlotsWithHash(ents, nb, h) ==
    {i \in 0..(nb - 1) : ents[i].tag = "ENTRY" /\ ents[i].hash = h}

\* an entry for h is stored in the table
Stored(ents, nb, h) == SlotsWithHash(ents, nb, h) # {}

\* n is a power of two
IsPow2(n) == \E k \in 0..16 : n = 2 ^ k

\* N is the smallest power of two with B <= N
IsSmallestPow2AtLeast(N, B) ==
    /\ IsPow2(N)
    /\ B <= N
    /\ \A M \in 1..N : (IsPow2(M) /\ B <= M) => M = N

\* the constructor call of SpecCreate has returned / returned a map
Constructed == scen.pc = 1
ConstructedMap == scen.pc = 1 /\ ~scen.map.isNull

\* the call that just ended was made with a map and a key
WithMapAndKey(c) == ~c.mapNull /\ ~c.keyNull

\* ------------------------------------------------------------------- C1
\* C1: the table agrees with the abstract map of what the caller inserted
\* and did not remove, delete or clear since: for every key, contains is
\* true exactly when the key is in the abstract map, and get returns the
\* value of the latest insert then and NULL otherwise.  Stated for the
\* keys whose probe ends, so that a violation is a wrong answer.
C1_AgreesWithAbstractMap ==
    \A h \in Hashes :
        (Running /\ ~probeHangs(entries, numBuckets, h)) =>
            /\ containsKey(entries, numBuckets, h) =
                   (IF amap[h].present THEN "true" ELSE "false")
            /\ getValue(entries, numBuckets, h) =
                   (IF amap[h].present THEN amap[h].value ELSE NULL)

\* ------------------------------------------------------------------- C2
\* C2: round trip: when insert(T, K, V) has returned true, get(T, K) called
\* next returns V.
C2_RoundTrip ==
    (last.op = "insert" /\ ~last.hung /\ last.retB) =>
        /\ ~probeHangs(entries, numBuckets, last.hash)
        /\ getValue(entries, numBuckets, last.hash) = last.value

\* an insert that overwrote an entry behind a Tombstone returned true
C2_Witness ==
    /\ last.op = "insert" /\ last.retB /\ last.value # NULL
    /\ last.keysFreed # <<>>
    /\ \E i \in 0..(numBuckets - 1) : entries[i] = DUMMY_ENTRY
    /\ getValue(entries, numBuckets, last.hash) = last.value

\* ------------------------------------------------------------------- C3
\* C3: every call of insert, get, remove, deleteKey and contains
\* terminates in every reachable state of the table.
C3_EveryCallTerminates == ~last.hung

\* ------------------------------------------------------------------- C4
\* C4: Tombstone does not block probing: for distinct K1, K2, K3 with the
\* same starting bucket, after insert(K1), insert(K2), remove(K1),
\* insert(K3) without a resize, K3 and K2 occupy different buckets and
\* get(K2), get(K3) return the inserted values.
C4_TombstoneDoesNotBlockProbing ==
    (/\ scen.pc = 4
     /\ ~scen.resized
     /\ scen.k1 # scen.k2 /\ scen.k1 # scen.k3 /\ scen.k2 # scen.k3
     /\ labs(scen.k1) % numBuckets = labs(scen.k2) % numBuckets
     /\ labs(scen.k1) % numBuckets = labs(scen.k3) % numBuckets)
    =>
        /\ Running
        /\ Stored(entries, numBuckets, scen.k2)
        /\ Stored(entries, numBuckets, scen.k3)
        /\ SlotsWithHash(entries, numBuckets, scen.k2)
               \cap SlotsWithHash(entries, numBuckets, scen.k3) = {}
        /\ containsKey(entries, numBuckets, scen.k2) = "true"
        /\ getValue(entries, numBuckets, scen.k2) = scen.v2
        /\ containsKey(entries, numBuckets, scen.k3) = "true"
        /\ getValue(entries, numBuckets, scen.k3) = scen.v3

\* ------------------------------------------------------------------- C5
\* C5: resize preserves membership: when an insert has run a resize and
\* returned, every other key that get found before the call is found
\* after it with the same value, and the inserted key is found with the
\* inserted value.
C5_ResizePreservesMembership ==
    [][(last'.op = "insert" /\ last'.resized /\ last'.retB /\ ~last'.hung) =>
          /\ \A h \in Hashes \ {last'.hash} :
                containsKey(entries, numBuckets, h) = "true" =>
                    /\ containsKey(entries', numBuckets', h) = "true"
                    /\ getValue(entries', numBuckets', h)
                          = getValue(entries, numBuckets, h)
          /\ containsKey(entries', numBuckets', last'.hash) = "true"
          /\ getValue(entries', numBuckets', last'.hash) = last'.value
      ]_vars

\* ------------------------------------------------------------------- C6
\* C6: overwrite preserves length: a successful insert of a key that is
\* stored in the table (with any hash, with or without Tombstones on its
\* probe path) replaces the stored value, leaves the length unchanged and
\* destroys the previous key and the previous value once each.
C6_OverwritePreservesLength ==
    [][(/\ last'.op = "insert" /\ last'.retB /\ ~last'.hung
        /\ Stored(entries, numBuckets, last'.hash)) =>
          /\ length' = length
          /\ getValue(entries', numBuckets', last'.hash) = last'.value
          /\ \E i \in SlotsWithHash(entries, numBuckets, last'.hash) :
                /\ last'.keysFreed = <<entries[i].key>>
                /\ last'.valsFreed = <<entries[i].value>>
      ]_vars

\* ------------------------------------------------------------------- C7
\* C7: size bookkeeping: the length decreases by one in a remove/deleteKey
\* that finds its key, increases by one in a successful insert of a key
\* that is not present (never inserted, or removed, deleted or cleared
\* since its last insert, and reported absent by contains), and is
\* unchanged by a failed call
\* (NULL table or key, key not found, allocation failure) and by get and
\* contains.
C7_SizeBookkeeping ==
    [][LET c == last'
           found == /\ WithMapAndKey(c)
                    /\ _hashmapGetIndex(entries, numBuckets, c.hash) >= 0
       IN  /\ (c.op \in {"remove", "deleteKey"} /\ found) =>
                  length' = length - 1
           /\ (c.op \in {"remove", "deleteKey"} /\ ~found) =>
                  length' = length
           /\ (c.op = "insert" /\ c.retB /\ ~c.hung
               /\ ~amap[c.hash].present
               /\ containsKey(entries, numBuckets, c.hash) = "false") =>
                  length' = length + 1
           /\ (c.op = "insert" /\ (~c.retB \/ c.hung)) => length' = length
           /\ c.op \in {"get", "contains"} => length' = length
      ]_vars

\* ------------------------------------------------------------------- C8
\* C8: insert with a NULL table or a NULL key returns false and changes
\* nothing; insert with a key and a NULL value succeeds (returns true,
\* unless an allocation fails).
C8_InsertArguments ==
    [][last'.op = "insert" =>
          /\ (last'.mapNull \/ last'.keyNull) =>
                /\ ~last'.hung /\ ~last'.retB
                /\ UNCHANGED <<entries, numBuckets, length, liveKeys, liveVals>>
          /\ (WithMapAndKey(last') /\ last'.value = NULL
              /\ last'.allocFail = "none") =>
                /\ ~last'.hung /\ last'.retB
      ]_vars

\* ------------------------------------------------------------------- C9
\* C9: absence semantics: get and remove return NULL and contains returns
\* false when the key was never inserted or was removed since, or the
\* table or the key argument is NULL; the table is unchanged then.
C9_AbsenceSemantics ==
    [][(/\ last'.op \in {"get", "remove", "contains"}
        /\ (last'.mapNull \/ last'.keyNull \/ ~amap[last'.hash].present)) =>
          /\ ~last'.hung
          /\ last'.op \in {"get", "remove"} => last'.retP = NULL
          /\ last'.op = "contains" => ~last'.retB
          /\ UNCHANGED <<entries, numBuckets, length, liveKeys, liveVals>>
      ]_vars

\* ------------------------------------------------------------------ C10
\* C10: remove of a key stored in the table returns the stored value
\* without destroying it, destroys the key once, turns that bucket into a
\* Tombstone, decrements the length and changes no other bucket nor the
\* bucket count; contains is false afterwards.
C10_RemoveStoredKey ==
    [][(/\ last'.op = "remove" /\ WithMapAndKey(last')
        /\ Stored(entries, numBuckets, last'.hash)) =>
          /\ ~last'.hung
          /\ \E i \in SlotsWithHash(entries, numBuckets, last'.hash) :
                /\ last'.retP = entries[i].value
                /\ last'.keysFreed = <<entries[i].key>>
                /\ entries' = [entries EXCEPT ![i] = DUMMY_ENTRY]
          /\ last'.valsFreed = <<>>
          /\ length' = length - 1
          /\ numBuckets' = numBuckets
          /\ containsKey(entries', numBuckets', last'.hash) = "false"
      ]_vars

\* ------------------------------------------------------------------ C11
\* C11: deleteKey with a NULL table returns false; with a table and a key
\* that is absent (never inserted, removed since, or a NULL key argument)
\* it returns true and removes nothing; with a table and a present key it
\* removes the entry, destroys its key and its value and returns true.
C11_DeleteKeyResults ==
    [][last'.op = "deleteKey" =>
          LET c == last'
              changed == ~UNCHANGED <<entries, numBuckets, length, liveKeys,
                                      liveVals>>
          IN  /\ c.mapNull => (~c.hung /\ ~c.retB /\ ~changed)
              /\ (~c.mapNull /\ (c.keyNull \/ ~amap[c.hash].present)) =>
                    (~c.hung /\ c.retB /\ ~changed)
              /\ (WithMapAndKey(c) /\ amap[c.hash].present) =>
                    /\ ~c.hung /\ c.retB
                    /\ ~Stored(entries', numBuckets', c.hash)
                    /\ length' = length - 1
                    /\ \E i \in SlotsWithHash(entries, numBuckets, c.hash) :
                          c.keysFreed = <<entries[i].key>>
                    /\ c.valsFreed = IF amap[c.hash].value = NULL THEN <<>>
                                     ELSE <<amap[c.hash].value>>
      ]_vars

\* ------------------------------------------------------------------ C12
\* C12: hashmapDeleteKey returns false if the map is NULL or the key is
\* not in the map, and true only when an entry with that key was removed.
C12_DeleteKeyFalseWhenNotFound ==
    [][(last'.op = "deleteKey" /\ ~last'.hung) =>
          (last'.retB <=>
              /\ WithMapAndKey(last')
              /\ _hashmapGetIndex(entries, numBuckets, last'.hash) >= 0
              /\ length' = length - 1)
      ]_vars

\* ------------------------------------------------------------------ C13
\* C13: hashmapNewBuckets(B, ...) with B > 0 and the four callbacks set
\* yields a map whose recorded bucket count (numBuckets, the modulus of the
\* probe and the value of the resize test) is the smallest power of two N
\* with B <= N; hashmapNew yields 16 buckets.  The constructor returns for
\* every B.
C13_BucketCountRounded ==
    /\ scen.pc # 2
    /\ ConstructedMap =>
          /\ IsSmallestPow2AtLeast(numBuckets, scen.B)
          /\ scen.ctor = "hashmapNew" => numBuckets = 16

\* ------------------------------------------------------------------ C14
\* C14: the constructor returns NULL, keeping nothing it allocated, exactly
\* when one of deleteValue, printValue, deleteKey, printKey is NULL, the
\* requested bucket count is <= 0 or an allocation fails; a NULL hash
\* function is not a failure.  A created map has length 0 and every bucket
\* of its array Empty.
C14_CreateFailures ==
    Constructed =>
        /\ scen.map.isNull <=>
              \/ ~scen.deleteValue \/ ~scen.printValue
              \/ ~scen.deleteKey \/ ~scen.printKey
              \/ scen.B <= 0
              \/ scen.allocFail # "none"
        /\ scen.map.isNull => scen.map.blocks = {}
        /\ ~scen.map.isNull =>
              /\ length = 0
              /\ DOMAIN entries # {}
              /\ \A i \in DOMAIN entries : entries[i] = EMPTY_ENTRY

\* hashmapNewBuckets(3, NULL, ...) returned a map with four Empty buckets
C14_Witness ==
    /\ ConstructedMap
    /\ scen.ctor = "hashmapNewBuckets" /\ scen.B = 3 /\ ~scen.hash
    /\ scen.map.hash = "_djb2x"
    /\ DOMAIN entries = 0..3
    /\ \A i \in DOMAIN entries : entries[i] = EMPTY_ENTRY

\* ------------------------------------------------------------------ C15
\* C15: in every reachable state of a map created with a positive bucket
\* count, the length of the bucket array is a power of two >= 1.
C15_ArrayLengthPowerOfTwo ==
    IsPow2(Cardinality(DOMAIN entries))

\* ------------------------------------------------------------------ C16
\* C16: in every reachable state the live-entry count is at most the
\* bucket count minus 1, so at least one bucket is not Occupied.
C16_OneBucketNotOccupied ==
    /\ length <= numBuckets - 1
    /\ length <= Cardinality(DOMAIN entries) - 1
    /\ Cardinality({i \in DOMAIN entries : entries[i].tag = "ENTRY"})
          <= numBuckets - 1
    /\ \E i \in 0..(numBuckets - 1) : entries[i].tag # "ENTRY"

\* an insert has filled the map up to bucket count minus 1 entries
C16_Witness ==
    /\ last.op = "insert" /\ last.retB
    /\ length = numBuckets - 1
    /\ Cardinality({i \in DOMAIN entries : entries[i].tag = "ENTRY"}) = length
    /\ length >= 2

\* ------------------------------------------------------------------ C17
\* C17: in every reachable state no two Occupied buckets carry the same
\* cached hash value, for every hash value, 0 included.
C17_NoDuplicateHash ==
    \A h \in Hashes : Cardinality(SlotsWithHash(entries, numBuckets, h)) <= 1

\* ------------------------------------------------------------------ C18
\* the insert that just ended ran (or tried to run) a resize, which
\* multiplies the bucket count by 4
ResizeRun(c) == c.resized \/ c.allocFail = "resize"

\* C18 as stated: before placing a new entry, insert runs a resize if the load
\* factor after the insertion, (length + 1) / bucket count, would exceed
\* 2/3, or if the length equals the bucket count minus 1; otherwise it
\* does not resize.
C18_ResizeOnLoadAfterInsertion ==
    [][(/\ last'.op = "insert" /\ WithMapAndKey(last')
        /\ ~Stored(entries, numBuckets, last'.hash)) =>
          (ResizeRun(last') <=>
              (3 * (length + 1) > 2 * numBuckets \/ length = numBuckets - 1))
      ]_vars

\* C18 amended: before placing an entry, insert runs a resize if the load
\* factor before the insertion, length / bucket count, exceeds 2/3, or if
\* the length equals the bucket count minus 1; otherwise it does not
\* resize.  A resize that was run has multiplied the bucket count by 4,
\* also when the entry could not be allocated afterwards.
C18_ResizeOnCurrentLoad ==
    [][(last'.op = "insert" /\ WithMapAndKey(last')) =>
          /\ ResizeRun(last') <=>
                (3 * length > 2 * numBuckets \/ length = numBuckets - 1)
          /\ numBuckets' = IF last'.resized THEN 4 * numBuckets
                           ELSE numBuckets
      ]_vars

\* a third entry was placed in a map of 4 buckets without a resize
C18_Witness ==
    /\ last.op = "insert" /\ last.retB /\ ~last.resized
    /\ last.keysFreed = <<>>
    /\ numBuckets = 4 /\ length = 3

\* ------------------------------------------------------------------ C19
\* C19: in a map created with 4 buckets, inserting three keys with
\* pairwise distinct hashes causes no resize (the bucket count is 4 after
\* each), and inserting a fourth resizes the map to 16 buckets; then the
\* length is 4 and get returns the inserted value for each of the four.
C19_FourthInsertResizes ==
    /\ Running
    /\ \A i \in 1..3 : scen.pc >= i => scen.nbs[i] = 4
    /\ scen.pc <= 3 => (numBuckets = 4 /\ length = scen.pc)
    /\ scen.pc = 4 =>
          /\ last.resized
          /\ numBuckets = 16
          /\ length = 4
          /\ \A i \in 1..4 :
                /\ containsKey(entries, numBuckets, scen.keys[i]) = "true"
                /\ getValue(entries, numBuckets, scen.keys[i]) = scen.vals[i]

\* the four keys -20, 4, 0, 16 start at bucket 0 of 4 and are stored in a
\* map of 16 buckets
C19_Witness ==
    /\ scen.pc = 4
    /\ scen.keys = <<-20, 4, 0, 16>>
    /\ numBuckets = 16 /\ length = 4
    /\ \A i \in 1..4 : getValue(entries, numBuckets, scen.keys[i]) = scen.vals[i]
    /\ Cardinality({scen.vals[i] : i \in 1..4}) = 4

\* ------------------------------------------------------------------ C20
\* C20: when the allocation of the new bucket array fails in a resize that
\* insert asked for, insert returns false and the map is as before the
\* call: same buckets, same bucket count, same length, no key or value
\* destroyed; the map answers later calls as it did before.
C20_ResizeFailureLeavesMap ==
    [][(last'.op = "insert" /\ last'.allocFail = "resize") =>
          /\ ~last'.hung /\ ~last'.retB /\ ~last'.resized
          /\ last'.keysFreed = <<>> /\ last'.valsFreed = <<>>
          /\ UNCHANGED <<entries, numBuckets, length, liveKeys, liveVals>>
          /\ \A h \in Hashes :
                /\ containsKey(entries', numBuckets', h)
                      = containsKey(entries, numBuckets, h)
                /\ getValue(entries', numBuckets', h)
                      = getValue(entries, numBuckets, h)
      ]_vars

\* an insert into a map holding two entries failed in the resize
C20_Witness ==
    /\ last.op = "insert" /\ last.allocFail = "resize" /\ ~last.retB
    /\ length = 2
    /\ Cardinality({i \in DOMAIN entries : entries[i].tag = "ENTRY"}) = 2

\* ------------------------------------------------------------------ C21
\* C21: when the allocation of the new entry fails in insert, insert
\* returns false and the map is as before the call: same bucket count,
\* same buckets, same length, also when the call ran a resize before the
\* entry was allocated.
C21_EntryFailureLeavesMap ==
    [][(last'.op = "insert" /\ last'.allocFail = "entry") =>
          /\ ~last'.hung /\ ~last'.retB
          /\ UNCHANGED <<entries, numBuckets, length, liveKeys, liveVals>>
      ]_vars

\* ------------------------------------------------------------------ C22
\* the buckets of the array that hold an entry
OccupiedSlots(ents) == {i \in DOMAIN ents : ents[i].tag = "ENTRY"}

\* how many times x was passed in the calls seq
Occurrences(seq, x) == Cardinality({j \in 1..Len(seq) : seq[j] = x})

\* C22: clear on a map destroys the key and the (non-NULL) value of every
\* stored entry exactly once, leaves no Occupied bucket, sets the length to
\* 0 and leaves the bucket count and the array as long as they were; clear
\* on a NULL map changes nothing.
C22_ClearEmptiesMap ==
    [][last'.op = "clear" =>
          IF last'.mapNull
          THEN UNCHANGED <<entries, numBuckets, length, liveKeys, liveVals>>
          ELSE /\ ~last'.hung
               /\ \A i \in OccupiedSlots(entries) :
                     /\ Occurrences(last'.keysFreed, entries[i].key) = 1
                     /\ entries[i].value # NULL =>
                           Occurrences(last'.valsFreed, entries[i].value) = 1
               /\ OccupiedSlots(entries') = {}
               /\ length' = 0
               /\ numBuckets' = numBuckets
               /\ DOMAIN entries' = DOMAIN entries
      ]_vars

\* ------------------------------------------------------------------ C23
\* every object of the calls seq is one of owned and is passed once
DestroysOwnedOnce(seq, owned) ==
    \A x \in Range(seq) \ {NULL} : x \in owned /\ Occurrences(seq, x) = 1

\* C23: the map owns the keys and values of the successful inserts until it
\* destroys them or remove returns the value.  Every call passes to the
\* destructors only objects the map owns, each once; remove destroys no
\* value and the value it returns is no longer owned; an insert that
\* returns false takes no ownership of its key and value; after
\* hashmapFree of a map nothing is owned, so every key was destroyed once
\* and every value was destroyed once or returned by remove.
C23_Ownership ==
    [][~last'.hung =>
          /\ DestroysOwnedOnce(last'.keysFreed, liveKeys)
          /\ DestroysOwnedOnce(last'.valsFreed, liveVals)
          /\ liveKeys \ Range(last'.keysFreed) \subseteq liveKeys'
          /\ liveKeys' \cap Range(last'.keysFreed) = {}
          /\ liveVals' \cap Range(last'.valsFreed) = {}
          /\ last'.op = "remove" =>
                /\ last'.valsFreed = <<>>
                /\ last'.retP \notin liveVals'
          /\ (last'.op = "insert" /\ ~last'.retB) =>
                /\ liveKeys' = liveKeys \ Range(last'.keysFreed)
                /\ liveVals' = liveVals \ Range(last'.valsFreed)
          /\ (last'.op = "free" /\ ~last'.mapNull) =>
                liveKeys' = {} /\ liveVals' = {}
      ]_vars

C23_Witness ==
    /\ last.op = "free" /\ ~last.mapNull
    /\ Len(last.keysFreed) >= 2
    /\ \E x \in Range(last.valsFreed) : x # NULL

\* ------------------------------------------------------------------ C24
\* C24: valueToString returns "" when the map is NULL, the map is empty,
\* the key is NULL or no entry is stored for the key; when an entry is
\* stored for the key it returns what printValue returns for the stored
\* value, also when the stored value is NULL.
C24_ValueToString ==
    [][last'.op = "valueToString" =>
          /\ ~last'.hung
          /\ IF \/ last'.mapNull \/ last'.keyNull \/ length = 0
                \/ ~Stored(entries, numBuckets, last'.hash)
             THEN last'.retS = NoString
             ELSE \E i \in SlotsWithHash(entries, numBuckets, last'.hash) :
                    last'.retS = [kind |-> "printValue",
                                  pairs |-> <<entries[i].value>>]
      ]_vars

\* ------------------------------------------------------------------ C25
\* C25: length returns -1 for a NULL map and the stored length otherwise;
\* isEmpty returns false for a NULL map and otherwise true exactly when the
\* stored length is 0; the stored length is 0 exactly when no bucket is
\* Occupied.
C25_LengthAndIsEmpty ==
    /\ (last.op = "length" /\ last.mapNull) => last.retN = -1
    /\ (last.op = "length" /\ ~last.mapNull) => last.retN = length
    /\ (last.op = "isEmpty" /\ last.mapNull) => ~last.retB
    /\ (last.op = "isEmpty" /\ ~last.mapNull) => (last.retB <=> length = 0)
    /\ (length = 0) <=> (OccupiedSlots(entries) = {})

\* ------------------------------------------------------------------ C26
\* the <<key, value>> of the Occupied buckets in bucket order
RECURSIVE OccupiedPairs(_, _, _)
OccupiedPairs(ents, nb, i) ==
    IF i >= nb THEN <<>>
    ELSE IF ents[i].tag = "ENTRY"
    THEN <<<<ents[i].key, ents[i].value>>>> \o OccupiedPairs(ents, nb, i + 1)
    ELSE OccupiedPairs(ents, nb, i + 1)

\* C26: toString returns "{}" for a NULL map and for a map of length 0;
\* otherwise it returns "{" + the "key: value" of the Occupied buckets in
\* bucket order, joined by ", ", + "}", and at least one bucket is
\* rendered, so that the replacement of the last separator stays inside
\* the buffer.
C26_ToString ==
    [][last'.op = "toString" =>
          IF last'.mapNull \/ length = 0
          THEN last'.retS = [kind |-> "braces", pairs |-> <<>>]
          ELSE /\ OccupiedPairs(entries, numBuckets, 0) # <<>>
               /\ last'.retS = [kind |-> "braces",
                                pairs |-> OccupiedPairs(entries, numBuckets, 0)]
      ]_vars

\* ------------------------------------------------------------------ C27
\* C27: for every hash value, 0 included, the probe does not end on a
\* Tombstone: when it ends, it ends on an Empty bucket or on an Occupied
\* bucket whose hash is the one probed for.
C27_ProbeNeverEndsOnTombstone ==
    \A h \in Hashes :
        LET i == _findSlotEntries(entries, numBuckets, h)
        IN  i # Diverges =>
              /\ entries[i] # DUMMY_ENTRY
              /\ \/ entries[i] = EMPTY_ENTRY
                 \/ entries[i].tag = "ENTRY" /\ entries[i].hash = h

\* ------------------------------------------------------------------ C28
\* the entries of the Occupied buckets
OccupiedEntries(ents) == {ents[i] : i \in OccupiedSlots(ents)}

\* C28: a resize of the map, in every state where insert would run one,
\* yields an array without Tombstone that holds exactly the entries that
\* were Occupied (same key, value and hash), one bucket each, as many as
\* the length, which the resize leaves alone; it destroys nothing.
C28_ResizeKeepsEntries ==
    _hashmapNeedsResize(length, numBuckets) =>
        LET r == _hashmapResize(entries, numBuckets, length)
        IN  /\ \A i \in DOMAIN r.ents : r.ents[i] # DUMMY_ENTRY
            /\ OccupiedEntries(r.ents) = OccupiedEntries(entries)
            /\ Cardinality(OccupiedSlots(r.ents)) =
                  Cardinality(OccupiedSlots(entries))
            /\ Cardinality(OccupiedSlots(r.ents)) = length
            /\ r.fk = <<>> /\ r.fv = <<>>

\* ------------------------------------------------------------------ C29
\* bucket counts on both sides of HASHMAP_LARGE_SIZE
ResizeCounts == {1, 2, 3, 4, 16, 32768, 65535, 65536, 65537, 131072, 262144}

\* C29: a resize sets the bucket count to 4 times the count when the count
\* is below 65536 and to 2 times the count when it is 65536 or more; only
\* an insert that ran a resize changes the bucket count.
C29_ResizeFactor ==
    [][/\ \A nb \in ResizeCounts \cup {numBuckets} :
             /\ nb < 65536 => newNumBuckets(nb) = 4 * nb
             /\ nb >= 65536 => newNumBuckets(nb) = 2 * nb
       /\ (last'.op = "insert" /\ last'.resized) =>
             numBuckets' = IF numBuckets < 65536 THEN 4 * numBuckets
                           ELSE 2 * numBuckets
       /\ ~(last'.op = "insert" /\ last'.resized) => numBuckets' = numBuckets
      ]_vars

C29_Witness ==
    /\ last.op = "insert" /\ last.resized /\ last.retB
    /\ numBuckets = 16
    /\ length = 4

\* ------------------------------------------------------------------ C30
\* C30: for every 64-bit hash value, negative values and INT64_MIN
\* included, and every bucket count n >= 1, the index at which the probe
\* starts and every index it goes on to are in 0..n-1.
C30_ProbeIndexInRange ==
    scen.pc = 1 => scen.i \in 0..(scen.len - 1)

\* ------------------------------------------------------------------ C31
\* C31: after clear of a map returns, every bucket is Empty, also when
\* Tombstones lay after the last entry and when the length was 0 with
\* Tombstones in the array: the array is the one of a new map of the same
\* bucket count.
C31_ClearLeavesEveryBucketEmpty ==
    [][(last'.op = "clear" /\ ~last'.mapNull) =>
          /\ \A i \in DOMAIN entries' : entries'[i] = EMPTY_ENTRY
          /\ entries' = _makeBuckets(Cardinality(DOMAIN entries))
      ]_vars

\* ------------------------------------------------------------------ C32
\* C32: in every state the length stored in the map is the number of
\* Occupied buckets.
C32_LengthCountsOccupied ==
    length = Cardinality(OccupiedSlots(entries))

\* ------------------------------------------------------------------ C33
\* C33: in every state, for every Occupied bucket s, the probe for the hash
\* cached in s ends at s.
C33_ProbeChain ==
    \A s \in OccupiedSlots(entries) :
        _findSlotEntries(entries, numBuckets, entries[s].hash) = s

\* ------------------------------------------------------------------ C34
\* C34 as stated: whenever remove returns NULL the map is as before the
\* call: no bucket became a Tombstone, no key was destroyed, the length is
\* the same, also for entries inserted with a NULL value.
C34_RemoveNullLeavesMap ==
    [][(last'.op = "remove" /\ ~last'.hung /\ last'.retP = NULL) =>
          /\ UNCHANGED <<entries, numBuckets, length, liveKeys, liveVals>>
          /\ last'.keysFreed = <<>>
      ]_vars

\* C34, amended: when remove has no map, no key or finds no entry for the
\* key, it returns NULL and the map is as before the call.  When it finds an
\* entry it returns the stored value, which is NULL for an entry inserted
\* with a NULL value, and removes the entry: the bucket becomes a
\* Tombstone, the key is destroyed, the length goes down by one.
C34_RemoveAbsentLeavesMap ==
    [][(last'.op = "remove" /\ ~last'.hung) =>
          IF \/ last'.mapNull \/ last'.keyNull
             \/ _hashmapGetIndex(entries, numBuckets, last'.hash)
                   = ENTRY_NOT_FOUND
          THEN /\ last'.retP = NULL
               /\ UNCHANGED <<entries, numBuckets, length, liveKeys, liveVals>>
               /\ last'.keysFreed = <<>>
          ELSE LET idx == _hashmapGetIndex(entries, numBuckets, last'.hash)
               IN  /\ last'.retP = entries[idx].value
                   /\ entries' = [entries EXCEPT ![idx] = DUMMY_ENTRY]
                   /\ length' = length - 1
                   /\ numBuckets' = numBuckets
                   /\ last'.keysFreed = <<entries[idx].key>>
                   /\ last'.valsFreed = <<>>
      ]_vars

\* remove returned NULL for an entry that was stored with a NULL value
C34_Witness ==
    /\ last.op = "remove" /\ ~last.hung
    /\ last.retP = NULL
    /\ last.keysFreed # <<>>
    /\ last.hash \in NullValueHashes

\* ------------------------------------------------------------------ C35
\* the functions that only read the map
Queries == {"get", "contains", "length", "isEmpty", "valueToString", "toString"}

\* C35: get, contains, length, isEmpty, valueToString and toString leave
\* every bucket, the length and the bucket count as they were and call
\* neither destructor.
C35_QueriesLeaveMap ==
    [][last'.op \in Queries =>
          /\ UNCHANGED <<entries, numBuckets, length, liveKeys, liveVals>>
          /\ last'.keysFreed = <<>>
          /\ last'.valsFreed = <<>>
      ]_vars

\* toString rendered two entries of a map
C35_Witness ==
    /\ last.op = "toString" /\ ~last.mapNull
    /\ last.retS.kind = "braces"
    /\ Len(last.retS.pairs) >= 2

====
